---- MODULE Spec2Model ----
(***************************************************************************)
(* Model of the workflow engine of src/src/__init__.py: the engine's       *)
(* workflow table and executor registry, the synchronous operations        *)
(* create_workflow, add_step, register_executor, get_status, and the       *)
(* coroutine run, cut at its statements so that the states between          *)
(* dispatch, executor invocation and outcome are visible.                  *)
(*                                                                         *)
(* A workflow's name and creation time and a step's name and agent_id are  *)
(* never read by any operation modelled here except get_status (name),     *)
(* and are left out.  A step's dependency list is read only through        *)
(* `dep in completed`, so it is kept as a set.                             *)
(***************************************************************************)
EXTENDS Integers, Sequences, FiniteSets, TLC

\* ---------------------------------------------------------------- bounds
MaxWorkflows == 1      \* workflows created by create_workflow
MaxStepIds   == 3      \* distinct step ids 1..MaxStepIds
MaxDeps      == 2      \* length of a dependency list given to add_step
MaxActions   == 1      \* distinct action names
MaxExecs     == 2      \* distinct executor callables
MaxTasks     == 2      \* coroutines that may call run

WfIds    == 1..(MaxWorkflows + 1)   \* one id more than can ever be created
StepIds  == 1..MaxStepIds
Actions  == 1..MaxActions
ExecIds  == 1..MaxExecs
Tasks    == 1..MaxTasks
DepLists == {d \in SUBSET StepIds : Cardinality(d) <= MaxDeps}

\* ------------------------------------------------- WorkflowStatus values
PENDING   == "pending"
RUNNING   == "running"
COMPLETED == "completed"
FAILED    == "failed"
CANCELLED == "cancelled"
WorkflowStatus == {PENDING, RUNNING, COMPLETED, FAILED, CANCELLED}

\* Python's None: an unset result or error, an action without executor
\* (dict.get's default), no workflow
None == 0

\* what an executor returns is opaque to the engine: None or some value
Value == 1
Results == {None, Value}

\* str(e) of the exception an executor raised: a string, never None
ErrorText == 1

\* nothing returned (yet)
NoReturn == [none |-> TRUE]

VARIABLES
    workflows,   \* self.workflows: workflow id -> [status, steps]; steps is the
                 \* insertion-ordered dict of the workflow, as a sequence of steps
    executors,   \* self.executors: action -> executor, None where unregistered
    prior,       \* per action: the executor the last register_executor call
                 \* for the action found bound to it, None if it found none
    pc,          \* per task: position of its run coroutine
    wfid,        \* per task: run's workflow_id argument
    completed,   \* per task: run's local set `completed`
    failed,      \* per task: run's local flag `failed`
    ready,       \* per task: run's local list `ready` (step ids, in order)
    idx,         \* per task: position of `for step in ready` (1-based)
    returned,    \* per task: the value run returned
    invoked,     \* per task: executor invocations of the current run, in order
    frontiers,   \* per task: the ready lists computed so far in the current run
    fresh,       \* per task: every step was PENDING when run was called
    raised,      \* per task: the step whose executor raised in the current run
    ret          \* what the last engine call returned or raised, when that call
                 \* was one of the synchronous operations

vars == <<workflows, executors, prior, pc, wfid, completed, failed, ready, idx,
          returned, invoked, frontiers, fresh, raised, ret>>

runLocals == <<wfid, completed, failed, ready, idx, invoked, frontiers, fresh,
               raised>>

\* ------------------------------------------------------------ data model
\* WorkflowStep(step_id, name, action, dependencies=...): the dataclass defaults
WorkflowStep(step_id, action, dependencies) ==
    [step_id |-> step_id, action |-> action, dependencies |-> dependencies,
     status |-> PENDING, result |-> None, error |-> None]

\* Workflow(workflow_id, name): the dataclass defaults
Workflow == [status |-> PENDING, steps |-> <<>>]

\* position of key step_id in the dict, 0 when absent
KeyIndex(steps, step_id) ==
    IF \E i \in 1..Len(steps) : steps[i].step_id = step_id
    THEN CHOOSE i \in 1..Len(steps) : steps[i].step_id = step_id
    ELSE 0

Keys(steps) == {steps[i].step_id : i \in 1..Len(steps)}

StepOf(w, step_id) == workflows[w].steps[KeyIndex(workflows[w].steps, step_id)]

\* wf.steps[step_id] = step: a new key is appended, an existing key keeps its
\* position and gets the new value
DictSet(steps, step_id, step) ==
    IF KeyIndex(steps, step_id) = 0
    THEN Append(steps, step)
    ELSE [steps EXCEPT ![KeyIndex(steps, step_id)] = step]

\* the values a step can hold
StepType ==
    [step_id : StepIds, action : Actions, dependencies : DepLists,
     status : WorkflowStatus, result : Results, error : {None, ErrorText}]

\* the engine's state: its two dicts, and the locals of each run coroutine
TypeOK ==
    /\ DOMAIN workflows \subseteq WfIds
    /\ \A w \in DOMAIN workflows :
          /\ workflows[w].status \in WorkflowStatus
          /\ workflows[w].steps \in Seq(StepType)
          /\ \A i, j \in 1..Len(workflows[w].steps) :
                workflows[w].steps[i].step_id = workflows[w].steps[j].step_id
                    => i = j
    /\ executors \in [Actions -> ExecIds \cup {None}]
    /\ prior \in [Actions -> ExecIds \cup {None}]
    /\ pc \in [Tasks -> {"idle", "while", "for", "dispatched", "await",
                          "finish", "done"}]
    /\ \A t \in Tasks :
          /\ wfid[t] \in DOMAIN workflows \cup {None}
          /\ completed[t] \subseteq StepIds
          /\ failed[t] \in BOOLEAN
          /\ ready[t] \in Seq(StepIds)
          /\ idx[t] \in 0..(MaxStepIds + 1)

\* ---------------------------------------------------------------- Init
Init ==
    /\ workflows = << >>
    /\ executors = [a \in Actions |-> None]
    /\ prior     = [a \in Actions |-> None]
    /\ pc        = [t \in Tasks |-> "idle"]
    /\ wfid      = [t \in Tasks |-> None]
    /\ completed = [t \in Tasks |-> {}]
    /\ failed    = [t \in Tasks |-> FALSE]
    /\ ready     = [t \in Tasks |-> <<>>]
    /\ idx       = [t \in Tasks |-> 0]
    /\ returned  = [t \in Tasks |-> NoReturn]
    /\ invoked   = [t \in Tasks |-> <<>>]
    /\ frontiers = [t \in Tasks |-> <<>>]
    /\ fresh     = [t \in Tasks |-> FALSE]
    /\ raised    = [t \in Tasks |-> None]
    /\ ret       = <<"none", [none |-> TRUE]>>

\* No run is in flight: the engine's table and registry are written only
\* outside of a run, and runs are awaited one at a time.
AllIdle == \A t \in Tasks : pc[t] = "idle"

\* ------------------------------------------------ synchronous operations
\* faulty variant: an action that has an executor keeps it (setdefault)
register_executorKeepsFirst(action, executor) ==
    /\ AllIdle
    /\ executors' = IF executors[action] = None
                    THEN [executors EXCEPT ![action] = executor]
                    ELSE executors
    /\ prior' = [prior EXCEPT ![action] = executors[action]]
    /\ ret' = <<"register_executor", [none |-> TRUE]>>
    /\ UNCHANGED <<workflows, pc, returned, runLocals>>

\* create_workflow: uuid4 gives an id not in the table
create_workflow ==
    /\ AllIdle
    /\ Cardinality(DOMAIN workflows) < MaxWorkflows
    /\ LET w == Cardinality(DOMAIN workflows) + 1 IN
         /\ workflows' = [x \in DOMAIN workflows \cup {w} |->
                            IF x = w THEN Workflow ELSE workflows[x]]
         /\ ret' = <<"create_workflow", [workflow_id |-> w]>>
    /\ UNCHANGED <<executors, prior, pc, returned, runLocals>>

\* faulty variant: an unknown workflow id gets a workflow (setdefault)
add_stepCreatesWorkflow(workflow_id, step_id, action, dependencies) ==
    /\ AllIdle
    /\ workflows' =
         [x \in DOMAIN workflows \cup {workflow_id} |->
            [status |-> IF x \in DOMAIN workflows THEN workflows[x].status
                        ELSE PENDING,
             steps |-> IF x = workflow_id
                       THEN DictSet(IF x \in DOMAIN workflows
                                    THEN workflows[x].steps ELSE <<>>,
                                    step_id,
                                    WorkflowStep(step_id, action, dependencies))
                       ELSE workflows[x].steps]]
    /\ ret' = <<"add_step", [step_id |-> step_id]>>
    /\ UNCHANGED <<executors, prior, pc, returned, runLocals>>

add_step(workflow_id, step_id, action, dependencies) ==
    /\ AllIdle
    /\ IF workflow_id \notin DOMAIN workflows
       THEN /\ ret' = <<"add_step", [exception |-> "ValueError"]>>
            /\ UNCHANGED workflows
       ELSE /\ workflows' = [workflows EXCEPT ![workflow_id].steps =
                               DictSet(@, step_id,
                                       WorkflowStep(step_id, action, dependencies))]
            /\ ret' = <<"add_step", [step_id |-> step_id]>>
    /\ UNCHANGED <<executors, prior, pc, returned, runLocals>>

register_executor(action, executor) ==
    /\ AllIdle
    /\ executors' = [executors EXCEPT ![action] = executor]
    /\ prior' = [prior EXCEPT ![action] = executors[action]]
    /\ ret' = <<"register_executor", [none |-> TRUE]>>
    /\ UNCHANGED <<workflows, pc, returned, runLocals>>

get_status(workflow_id) ==
    /\ AllIdle
    /\ ret' = IF workflow_id \notin DOMAIN workflows
              THEN <<"get_status", [none |-> TRUE]>>
              ELSE <<"get_status", [workflow_id |-> workflow_id,
                                    status |-> workflows[workflow_id].status,
                                    steps  |-> Len(workflows[workflow_id].steps)]>>
    /\ UNCHANGED <<workflows, executors, prior, pc, returned, runLocals>>

\* ------------------------------------------------------------------ run
\* faulty variant: a dependency counts as met when its step exists
ReadyFilterDepExists(steps, done) ==
    SelectSeq(steps, LAMBDA step :
        /\ ~(step.step_id \in done
             \/ step.status \in {RUNNING, COMPLETED, FAILED})
        /\ \A dep \in step.dependencies : dep \in Keys(steps))

\* faulty variant: line 91 tests only `step_id in completed`, not the status
ReadyFilterNoStatus(steps, done) ==
    SelectSeq(steps, LAMBDA step :
        /\ step.step_id \notin done
        /\ \A dep \in step.dependencies : dep \in done)

\* faulty variant: line 91 is missing, completed and terminal steps are not skipped
ReadyFilterNoSkip(steps, done) ==
    SelectSeq(steps, LAMBDA step :
        \A dep \in step.dependencies : dep \in done)

\* faulty variant: one met dependency is enough for a step to be ready
ReadyFilterAnyDep(steps, done) ==
    SelectSeq(steps, LAMBDA step :
        /\ ~(step.step_id \in done
             \/ step.status \in {RUNNING, COMPLETED, FAILED})
        /\ \/ step.dependencies = {}
           \/ \E dep \in step.dependencies : dep \in done)

\* faulty variant: line 91 skips COMPLETED and FAILED steps but not RUNNING ones
ReadyFilterRunningReady(steps, done) ==
    SelectSeq(steps, LAMBDA step :
        /\ ~(step.step_id \in done
             \/ step.status \in {COMPLETED, FAILED})
        /\ \A dep \in step.dependencies : dep \in done)

\* lines 90-96: the steps appended to `ready`, in dict order
ReadyFilter(steps, done) ==
    SelectSeq(steps, LAMBDA step :
        /\ ~(step.step_id \in done
             \/ step.status \in {RUNNING, COMPLETED, FAILED})
        /\ \A dep \in step.dependencies : dep \in done)

ReadyIds(steps, done) ==
    [i \in 1..Len(ReadyFilter(steps, done)) |-> ReadyFilter(steps, done)[i].step_id]

\* the step object the for loop of task t holds
CurStep(t) == StepOf(wfid[t], ready[t][idx[t]])

\* its position in the dict
CurIndex(t) == KeyIndex(workflows[wfid[t]].steps, ready[t][idx[t]])

SetCur(t, field, value) ==
    [workflows EXCEPT ![wfid[t]].steps[CurIndex(t)][field] = value]

\* the summary of line 124
Summary(w, wfs) ==
    [workflow_id |-> w, status |-> wfs[w].status,
     steps |-> [s \in Keys(wfs[w].steps) |->
                  wfs[w].steps[KeyIndex(wfs[w].steps, s)].status]]

\* lines 78-80: unknown workflow id
RunNotFound(t, workflow_id) ==
    /\ AllIdle
    /\ workflow_id \notin DOMAIN workflows
    /\ returned' = [returned EXCEPT ![t] = [error |-> "Workflow not found"]]
    /\ pc' = [pc EXCEPT ![t] = "done"]
    /\ ret' = <<"none", [none |-> TRUE]>>
    /\ UNCHANGED <<workflows, executors, prior, runLocals>>

\* lines 78-85: the coroutine of task t starts and runs up to the loop
RunEnter(t, workflow_id) ==
    /\ pc[t] = "idle"
    /\ workflow_id \in DOMAIN workflows
    /\ workflows' = [workflows EXCEPT ![workflow_id].status = RUNNING]
    /\ wfid'      = [wfid EXCEPT ![t] = workflow_id]
    /\ completed' = [completed EXCEPT ![t] = {}]
    /\ failed'    = [failed EXCEPT ![t] = FALSE]
    /\ fresh'     = [fresh EXCEPT ![t] =
                       \A i \in 1..Len(workflows[workflow_id].steps) :
                           workflows[workflow_id].steps[i].status = PENDING]
    /\ pc'        = [pc EXCEPT ![t] = "while"]
    /\ ret'       = <<"none", [none |-> TRUE]>>
    /\ UNCHANGED <<executors, prior, ready, idx, returned, invoked, frontiers, raised>>

\* run called while no other run is in flight
RunCall(t, workflow_id) == AllIdle /\ RunEnter(t, workflow_id)

\* line 87, loop condition false
WhileExit(t) ==
    /\ pc[t] = "while"
    /\ ~(Cardinality(completed[t]) < Len(workflows[wfid[t]].steps) /\ ~failed[t])
    /\ pc' = [pc EXCEPT ![t] = "finish"]
    /\ UNCHANGED <<workflows, executors, prior, returned, runLocals, ret>>

\* faulty variant: the loop condition is `<=`, a round runs with nothing left
RoundWhenNothingLeft(t) ==
    /\ pc[t] = "while"
    /\ Cardinality(completed[t]) <= Len(workflows[wfid[t]].steps) /\ ~failed[t]
    /\ LET r == ReadyIds(workflows[wfid[t]].steps, completed[t]) IN
         /\ ready' = [ready EXCEPT ![t] = r]
         /\ frontiers' = [frontiers EXCEPT ![t] = Append(@, r)]
         /\ IF r = <<>>
            THEN /\ IF Cardinality(completed[t]) < Len(workflows[wfid[t]].steps)
                    THEN /\ workflows' = [workflows EXCEPT ![wfid[t]].status = FAILED]
                         /\ failed' = [failed EXCEPT ![t] = TRUE]
                    ELSE UNCHANGED <<workflows, failed>>
                 /\ pc' = [pc EXCEPT ![t] = "finish"]
                 /\ UNCHANGED idx
            ELSE /\ idx' = [idx EXCEPT ![t] = 1]
                 /\ pc' = [pc EXCEPT ![t] = "for"]
                 /\ UNCHANGED <<workflows, failed>>
    /\ UNCHANGED <<executors, prior, wfid, completed, returned, invoked, fresh,
                   raised, ret>>

\* lines 87-102, loop condition true: compute `ready`
Round(t) ==
    /\ pc[t] = "while"
    /\ Cardinality(completed[t]) < Len(workflows[wfid[t]].steps) /\ ~failed[t]
    /\ LET r == ReadyIds(workflows[wfid[t]].steps, completed[t]) IN
         /\ ready' = [ready EXCEPT ![t] = r]
         /\ frontiers' = [frontiers EXCEPT ![t] = Append(@, r)]
         /\ IF r = <<>>
            THEN \* lines 98-102
                 /\ IF Cardinality(completed[t]) < Len(workflows[wfid[t]].steps)
                    THEN /\ workflows' = [workflows EXCEPT ![wfid[t]].status = FAILED]
                         /\ failed' = [failed EXCEPT ![t] = TRUE]
                    ELSE UNCHANGED <<workflows, failed>>
                 /\ pc' = [pc EXCEPT ![t] = "finish"]
                 /\ UNCHANGED idx
            ELSE /\ idx' = [idx EXCEPT ![t] = 1]
                 /\ pc' = [pc EXCEPT ![t] = "for"]
                 /\ UNCHANGED <<workflows, failed>>
    /\ UNCHANGED <<executors, prior, wfid, completed, returned, invoked, fresh, raised,
                   ret>>

\* line 104, `ready` exhausted
ForEnd(t) ==
    /\ pc[t] = "for"
    /\ idx[t] > Len(ready[t])
    /\ pc' = [pc EXCEPT ![t] = "while"]
    /\ UNCHANGED <<workflows, executors, prior, returned, runLocals, ret>>

\* lines 104-105
Dispatch(t) ==
    /\ pc[t] = "for"
    /\ idx[t] <= Len(ready[t])
    /\ workflows' = SetCur(t, "status", RUNNING)
    /\ pc' = [pc EXCEPT ![t] = "dispatched"]
    /\ UNCHANGED <<executors, prior, returned, runLocals, ret>>

\* lines 107-110: an executor is registered; it is called and awaited
Invoke(t) ==
    /\ pc[t] = "dispatched"
    /\ executors[CurStep(t).action] # None
    /\ invoked' = [invoked EXCEPT ![t] =
                     Append(@, [step_id |-> CurStep(t).step_id,
                                executor |-> executors[CurStep(t).action]])]
    /\ pc' = [pc EXCEPT ![t] = "await"]
    /\ UNCHANGED <<workflows, executors, prior, wfid, completed, failed, ready, idx,
                   returned, frontiers, fresh, raised, ret>>

\* faulty variant: the auto-completed step is not added to `completed`
AutoCompleteNotAdded(t) ==
    /\ pc[t] = "dispatched"
    /\ executors[CurStep(t).action] = None
    /\ workflows' = SetCur(t, "status", COMPLETED)
    /\ idx' = [idx EXCEPT ![t] = @ + 1]
    /\ pc' = [pc EXCEPT ![t] = "for"]
    /\ UNCHANGED <<executors, prior, wfid, completed, failed, ready, returned, invoked,
                   frontiers, fresh, raised, ret>>

\* faulty variant: a missing executor is treated as a failure of the step
AutoCompleteFails(t) ==
    /\ pc[t] = "dispatched"
    /\ executors[CurStep(t).action] = None
    /\ workflows' = SetCur(t, "status", FAILED)
    /\ failed' = [failed EXCEPT ![t] = TRUE]
    /\ pc' = [pc EXCEPT ![t] = "while"]
    /\ UNCHANGED <<executors, prior, wfid, completed, ready, idx, returned, invoked,
                   frontiers, fresh, raised, ret>>

\* lines 117-120: no executor
AutoComplete(t) ==
    /\ pc[t] = "dispatched"
    /\ executors[CurStep(t).action] = None
    /\ workflows' = SetCur(t, "status", COMPLETED)
    /\ completed' = [completed EXCEPT ![t] = @ \cup {CurStep(t).step_id}]
    /\ idx' = [idx EXCEPT ![t] = @ + 1]
    /\ pc' = [pc EXCEPT ![t] = "for"]
    /\ UNCHANGED <<executors, prior, wfid, failed, ready, returned, invoked, frontiers,
                   fresh, raised, ret>>

\* faulty variant: a step whose executor returned is not added to `completed`
ExecutorReturnsNotAdded(t, value) ==
    /\ pc[t] = "await"
    /\ workflows' = [workflows EXCEPT
           ![wfid[t]].steps[CurIndex(t)] =
               [@ EXCEPT !.result = value, !.status = COMPLETED]]
    /\ idx' = [idx EXCEPT ![t] = @ + 1]
    /\ pc' = [pc EXCEPT ![t] = "for"]
    /\ UNCHANGED <<executors, prior, wfid, completed, failed, ready, returned,
                   invoked, frontiers, fresh, raised, ret>>

\* lines 110-111, 120: the executor returned a value
ExecutorReturns(t, value) ==
    /\ pc[t] = "await"
    /\ workflows' = [workflows EXCEPT
           ![wfid[t]].steps[CurIndex(t)] =
               [@ EXCEPT !.result = value, !.status = COMPLETED]]
    /\ completed' = [completed EXCEPT ![t] = @ \cup {CurStep(t).step_id}]
    /\ idx' = [idx EXCEPT ![t] = @ + 1]
    /\ pc' = [pc EXCEPT ![t] = "for"]
    /\ UNCHANGED <<executors, prior, wfid, failed, ready, returned, invoked, frontiers,
                   fresh, raised, ret>>

\* faulty variant: the except branch does not set the step's status
ExecutorRaisesKeepsRunning(t) ==
    /\ pc[t] = "await"
    /\ workflows' = SetCur(t, "error", ErrorText)
    /\ failed' = [failed EXCEPT ![t] = TRUE]
    /\ raised' = [raised EXCEPT ![t] = CurStep(t).step_id]
    /\ pc' = [pc EXCEPT ![t] = "while"]
    /\ UNCHANGED <<executors, prior, wfid, completed, ready, idx, returned, invoked,
                   frontiers, fresh, ret>>

\* faulty variant: the except branch does not record str(e)
ExecutorRaisesNoError(t) ==
    /\ pc[t] = "await"
    /\ workflows' = SetCur(t, "status", FAILED)
    /\ failed' = [failed EXCEPT ![t] = TRUE]
    /\ raised' = [raised EXCEPT ![t] = CurStep(t).step_id]
    /\ pc' = [pc EXCEPT ![t] = "while"]
    /\ UNCHANGED <<executors, prior, wfid, completed, ready, idx, returned, invoked,
                   frontiers, fresh, ret>>

\* faulty variant: no `break`, the for loop goes on to the next ready step
ExecutorRaisesNoBreak(t) ==
    /\ pc[t] = "await"
    /\ workflows' = [workflows EXCEPT
           ![wfid[t]].steps[CurIndex(t)] =
               [@ EXCEPT !.status = FAILED, !.error = ErrorText]]
    /\ failed' = [failed EXCEPT ![t] = TRUE]
    /\ raised' = [raised EXCEPT ![t] = CurStep(t).step_id]
    /\ idx' = [idx EXCEPT ![t] = @ + 1]
    /\ pc' = [pc EXCEPT ![t] = "for"]
    /\ UNCHANGED <<executors, prior, wfid, completed, ready, returned, invoked,
                   frontiers, fresh, ret>>

\* faulty variant: the except branch falls through to completed.add
ExecutorRaisesAddsCompleted(t) ==
    /\ pc[t] = "await"
    /\ workflows' = [workflows EXCEPT
           ![wfid[t]].steps[CurIndex(t)] =
               [@ EXCEPT !.status = FAILED, !.error = ErrorText]]
    /\ failed' = [failed EXCEPT ![t] = TRUE]
    /\ raised' = [raised EXCEPT ![t] = CurStep(t).step_id]
    /\ completed' = [completed EXCEPT ![t] = @ \cup {CurStep(t).step_id}]
    /\ pc' = [pc EXCEPT ![t] = "while"]
    /\ UNCHANGED <<executors, prior, wfid, ready, idx, returned, invoked,
                   frontiers, fresh, ret>>

\* faulty variant: the except branch marks the step and goes on with the
\* for loop without flagging the run as failed
ExecutorRaisesNoFailedFlag(t) ==
    /\ pc[t] = "await"
    /\ workflows' = [workflows EXCEPT
           ![wfid[t]].steps[CurIndex(t)] =
               [@ EXCEPT !.status = FAILED, !.error = ErrorText]]
    /\ raised' = [raised EXCEPT ![t] = CurStep(t).step_id]
    /\ idx' = [idx EXCEPT ![t] = @ + 1]
    /\ pc' = [pc EXCEPT ![t] = "for"]
    /\ UNCHANGED <<executors, prior, wfid, completed, failed, ready, returned,
                   invoked, frontiers, fresh, ret>>

\* lines 112-116: the executor raised an Exception
ExecutorRaises(t) ==
    /\ pc[t] = "await"
    /\ workflows' = [workflows EXCEPT
           ![wfid[t]].steps[CurIndex(t)] =
               [@ EXCEPT !.status = FAILED, !.error = ErrorText]]
    /\ failed' = [failed EXCEPT ![t] = TRUE]
    /\ raised' = [raised EXCEPT ![t] = CurStep(t).step_id]
    /\ pc' = [pc EXCEPT ![t] = "while"]
    /\ UNCHANGED <<executors, prior, wfid, completed, ready, idx, returned, invoked,
                   frontiers, fresh, ret>>

\* lines 122-124
Finish(t) ==
    /\ pc[t] = "finish"
    /\ LET wfs == [workflows EXCEPT ![wfid[t]].status =
                      IF ~failed[t] THEN COMPLETED ELSE FAILED] IN
         /\ workflows' = wfs
         /\ returned' = [returned EXCEPT ![t] = Summary(wfid[t], wfs)]
    /\ pc' = [pc EXCEPT ![t] = "done"]
    /\ UNCHANGED <<executors, prior, runLocals, ret>>

\* the caller's `await e.run(...)` resumes with the returned value; the
\* coroutine and its locals are gone
Resume(t) ==
    /\ pc[t] = "done"
    /\ pc'        = [pc EXCEPT ![t] = "idle"]
    /\ wfid'      = [wfid EXCEPT ![t] = None]
    /\ completed' = [completed EXCEPT ![t] = {}]
    /\ failed'    = [failed EXCEPT ![t] = FALSE]
    /\ ready'     = [ready EXCEPT ![t] = <<>>]
    /\ idx'       = [idx EXCEPT ![t] = 0]
    /\ returned'  = [returned EXCEPT ![t] = NoReturn]
    /\ invoked'   = [invoked EXCEPT ![t] = <<>>]
    /\ frontiers' = [frontiers EXCEPT ![t] = <<>>]
    /\ fresh'     = [fresh EXCEPT ![t] = FALSE]
    /\ raised'    = [raised EXCEPT ![t] = None]
    /\ UNCHANGED <<workflows, executors, prior, ret>>

\* Step ids are opaque strings to the engine, so the ids 1, 2, ... stand for
\* the ids in the order in which a workflow first sees them: a call of
\* add_step names a key the workflow has or the next new one.  Dependency
\* lists may name any id, also ids of steps not added yet.
NextKey(w, s) ==
    w \in DOMAIN workflows => s <= Len(workflows[w].steps) + 1

\* Runs are awaited one at a time, so which task calls run makes no
\* difference: the first one does.
Caller == CHOOSE t \in Tasks : \A u \in Tasks : t <= u

RunStep(t) ==
    \/ WhileExit(t)
    \/ Round(t)
    \/ ForEnd(t)
    \/ Dispatch(t)
    \/ Invoke(t)
    \/ AutoComplete(t)
    \/ \E value \in Results : ExecutorReturns(t, value)
    \/ ExecutorRaises(t)
    \/ Finish(t)

Next ==
    \/ create_workflow
    \/ \E w \in WfIds, s \in StepIds, a \in Actions, d \in DepLists :
           NextKey(w, s) /\ add_step(w, s, a, d)
    \/ \E a \in Actions, e \in ExecIds : register_executor(a, e)
    \/ \E w \in WfIds : get_status(w)
    \/ \E w \in WfIds : RunNotFound(Caller, w)
    \/ \E w \in WfIds : RunCall(Caller, w)
    \/ \E t \in Tasks : RunStep(t)
    \/ \E t \in Tasks : Resume(t)

Spec == Init /\ [][Next]_vars

\* The event loop resumes a coroutine that can continue, and an awaited
\* executor returns or raises.
FairSpec == Spec /\ \A t \in Tasks : WF_vars(RunStep(t))

\* ------------------------------------------------- interleaved runs
\* asyncio runs one coroutine at a time and switches only where a coroutine
\* awaits: task t takes a step only while every other run is not started,
\* suspended at `await executor(step)`, or over.
Quiet(t) == \A u \in Tasks \ {t} : pc[u] \in {"idle", "await", "done"}

\* Two tasks call run, also on the same workflow id, and their coroutines
\* interleave at the awaits.  The table and the registry are written only
\* while no run is in flight.
NextConc ==
    \/ create_workflow
    \/ \E w \in WfIds, s \in StepIds, a \in Actions, d \in DepLists :
           NextKey(w, s) /\ add_step(w, s, a, d)
    \/ \E a \in Actions, e \in ExecIds : register_executor(a, e)
    \/ \E w \in WfIds : get_status(w)
    \/ \E w \in WfIds : RunNotFound(Caller, w)
    \/ \E t \in Tasks, w \in WfIds : Quiet(t) /\ RunEnter(t, w)
    \/ \E t \in Tasks : Quiet(t) /\ RunStep(t)
    \/ \E t \in Tasks : Resume(t)

SpecConc == Init /\ [][NextConc]_vars

\* ======================================================== reference notions
\* the workflow a run of task t works on, once it has one
InRun(t) == pc[t] # "idle" /\ wfid[t] # None
Wf(t)    == workflows[wfid[t]]

DepsOf(steps, s) == steps[KeyIndex(steps, s)].dependencies

\* s names a step that depends on an id the workflow has no step for
Dangling(steps, s) == \E dep \in DepsOf(steps, s) : dep \notin Keys(steps)

\* s lies on a dependency cycle: a chain of dependencies leads from s to s
OnCycle(steps, s) ==
    \E n \in 1..Len(steps) : \E c \in [1..n -> Keys(steps)] :
        /\ c[1] = s
        /\ \A i \in 1..(n - 1) : c[i + 1] \in DepsOf(steps, c[i])
        /\ s \in DepsOf(steps, c[n])

ValidDag(steps) ==
    \A s \in Keys(steps) : ~Dangling(steps, s) /\ ~OnCycle(steps, s)

AllStatus(steps, status) == \A i \in 1..Len(steps) : steps[i].status = status

\* ================================================================= claims

\* C1: whenever a step has been dispatched (set to RUNNING, its executor
\* possibly invoked and awaited), every id in its dependency list names a
\* step of the workflow whose status is COMPLETED.
C1_DispatchedAfterDependencies ==
    \A t \in Tasks : pc[t] \in {"dispatched", "await"} =>
        \A dep \in CurStep(t).dependencies :
            /\ dep \in Keys(Wf(t).steps)
            /\ StepOf(wfid[t], dep).status = COMPLETED

\* C1 witness: a step that joins two dependencies is dispatched and its
\* executor awaited
C1_Witness ==
    \E t \in Tasks :
        /\ pc[t] = "await"
        /\ Cardinality(CurStep(t).dependencies) = 2
        /\ CurStep(t).status = RUNNING

\* ------------------------------------------------------------------- C2
\* the run of task t was called on a valid DAG whose steps were all PENDING,
\* and no executor has signalled failure in it
ValidRun(t) ==
    /\ InRun(t)
    /\ fresh[t]
    /\ ValidDag(Wf(t).steps)
    /\ raised[t] = None

\* C2: a run on a valid DAG (no cycle, no dangling dependency id) whose steps
\* are all PENDING at the call and whose executors do not signal failure
\* terminates, and when it returns the returned status is completed and every
\* step is COMPLETED.
C2_ValidDagCompletes ==
    /\ [](\A t \in Tasks : (ValidRun(t) /\ pc[t] = "done") =>
              /\ returned[t].status = COMPLETED
              /\ Wf(t).status = COMPLETED
              /\ AllStatus(Wf(t).steps, COMPLETED)
              /\ \A s \in Keys(Wf(t).steps) : returned[t].steps[s] = COMPLETED)
    /\ \A t \in Tasks :
          (ValidRun(t) /\ pc[t] = "while") ~> (pc[t] = "done" \/ raised[t] # None)

\* C2 witness: such a run has returned, for a workflow of three steps with a
\* dependency between them, after awaiting an executor
C2_Witness ==
    \E t \in Tasks :
        /\ ValidRun(t)
        /\ pc[t] = "done"
        /\ Len(Wf(t).steps) = 3
        /\ \E s \in Keys(Wf(t).steps) : DepsOf(Wf(t).steps, s) # {}
        /\ invoked[t] # <<>>

\* ------------------------------------------------------------------- C3
\* position of step id s in the list `ready` of task t, 0 when absent
ReadyPos(t, s) ==
    IF \E i \in 1..Len(ready[t]) : ready[t][i] = s
    THEN CHOOSE i \in 1..Len(ready[t]) : ready[t][i] = s
    ELSE 0

\* C3: once an executor has signalled failure in a run, the failing
\* invocation stays the last invocation of that run, the run only leaves the
\* loop and returns, the steps of the same frontier that were not yet
\* dispatched (and, in a run that started with every step PENDING, every step
\* neither completed nor failed in it) are PENDING, and the run returns failed
\* with these steps PENDING in the summary.
C3_FailFast ==
    \A t \in Tasks : raised[t] # None =>
        /\ pc[t] \in {"while", "finish", "done"}
        /\ invoked[t][Len(invoked[t])].step_id = raised[t]
        /\ ReadyPos(t, raised[t]) = idx[t]
        /\ \A j \in (idx[t] + 1)..Len(ready[t]) :
               StepOf(wfid[t], ready[t][j]).status = PENDING
        /\ fresh[t] => \A s \in Keys(Wf(t).steps) \ (completed[t] \cup {raised[t]}) :
                           StepOf(wfid[t], s).status = PENDING
        /\ pc[t] = "done" =>
              /\ returned[t].status = FAILED
              /\ \A j \in (idx[t] + 1)..Len(ready[t]) :
                     returned[t].steps[ready[t][j]] = PENDING
              /\ fresh[t] =>
                    \A s \in Keys(Wf(t).steps) \ (completed[t] \cup {raised[t]}) :
                        returned[t].steps[s] = PENDING

\* C3 witness: a run has returned after the first step of a frontier of two
\* failed, with a third step waiting behind the frontier
C3_Witness ==
    \E t \in Tasks :
        /\ raised[t] # None
        /\ pc[t] = "done"
        /\ fresh[t]
        /\ Len(ready[t]) = 2
        /\ idx[t] = 1
        /\ Len(Wf(t).steps) = 3
        /\ \E s \in Keys(Wf(t).steps) : ReadyPos(t, s) = 0 /\ s \notin completed[t]

\* ------------------------------------------------------------------- C4
\* the step ids of all frontiers of the run of task t, in order
RECURSIVE Flatten(_)
Flatten(seqs) == IF seqs = <<>> THEN <<>> ELSE Head(seqs) \o Flatten(Tail(seqs))

NoRepeat(seq) == \A i, j \in 1..Len(seq) : seq[i] = seq[j] => i = j

\* C4: within one run each step's executor is invoked at most once; no step
\* is in two frontiers of the run (nor twice in one); every invoked step is
\* the step the current frontier has reached; and the steps of the current
\* frontier that are not yet dispatched are PENDING with every dependency in
\* the completed set, as they were when the frontier was computed.
C4_AtMostOncePerRun ==
    \A t \in Tasks : InRun(t) =>
        /\ NoRepeat([i \in 1..Len(invoked[t]) |-> invoked[t][i].step_id])
        /\ NoRepeat(Flatten(frontiers[t]))
        /\ \A i \in 1..Len(invoked[t]) :
               \E j \in 1..Len(Flatten(frontiers[t])) :
                   Flatten(frontiers[t])[j] = invoked[t][i].step_id
        /\ pc[t] \in {"for", "dispatched", "await"} =>
              /\ frontiers[t][Len(frontiers[t])] = ready[t]
              /\ \A j \in 1..Len(ready[t]) :
                     (j > idx[t] \/ (j = idx[t] /\ pc[t] = "for")) =>
                        /\ StepOf(wfid[t], ready[t][j]).status = PENDING
                        /\ StepOf(wfid[t], ready[t][j]).dependencies
                              \subseteq completed[t]
        /\ pc[t] = "await" =>
              invoked[t][Len(invoked[t])].step_id = ready[t][idx[t]]

\* C4 witness: a run in its second frontier awaits the executor of a step
\* after invoking the executors of the first frontier
C4_Witness ==
    \E t \in Tasks :
        /\ pc[t] = "await"
        /\ Len(frontiers[t]) = 2
        /\ Len(invoked[t]) = 3

\* ------------------------------------------------------------------- C5
\* the run of task t has returned for an existing workflow
Returned(t) == pc[t] = "done" /\ wfid[t] # None

\* C5: when a run returns, a step that lies on a dependency cycle or depends
\* on an id the workflow has no step for was in no frontier of the run, the
\* run returned failed, and the step is PENDING.
C5_CyclicOrDanglingStaysPending ==
    \A t \in Tasks : Returned(t) =>
        \A s \in Keys(Wf(t).steps) :
            (OnCycle(Wf(t).steps, s) \/ Dangling(Wf(t).steps, s)) =>
                /\ \A j \in 1..Len(Flatten(frontiers[t])) :
                       Flatten(frontiers[t])[j] # s
                /\ returned[t].status = FAILED
                /\ StepOf(wfid[t], s).status = PENDING
                /\ returned[t].steps[s] = PENDING

\* ------------------------------------------------------------------- C6
\* C6: when a run returns, first or repeated, the workflow's status is
\* COMPLETED exactly when every step is COMPLETED, and FAILED otherwise.
C6_StatusFunctionOfSteps ==
    \A t \in Tasks : Returned(t) =>
        /\ Wf(t).status = COMPLETED <=> AllStatus(Wf(t).steps, COMPLETED)
        /\ Wf(t).status = FAILED <=> ~AllStatus(Wf(t).steps, COMPLETED)

\* ------------------------------------------------------------------- C7
\* the status changes a step may make
StepTransitions ==
    {<<PENDING, RUNNING>>, <<RUNNING, COMPLETED>>, <<RUNNING, FAILED>>}

\* C7: in every step of a run (from its call to its return; the workflow's
\* steps are not added or replaced meanwhile) each step keeps its status or
\* changes it by PENDING -> RUNNING, RUNNING -> COMPLETED or RUNNING -> FAILED,
\* so a COMPLETED or FAILED step never changes status; and every frontier a
\* run computes holds only steps whose status is PENDING.
C7_StepStateMachine ==
    [][ \A t \in Tasks : (~AllIdle \/ ~AllIdle') =>
          /\ \A w \in DOMAIN workflows :
                /\ Len(workflows'[w].steps) = Len(workflows[w].steps)
                /\ \A i \in 1..Len(workflows[w].steps) :
                       \/ workflows'[w].steps[i].status = workflows[w].steps[i].status
                       \/ <<workflows[w].steps[i].status,
                             workflows'[w].steps[i].status>> \in StepTransitions
          /\ (pc[t] = "while" /\ pc'[t] = "for") =>
                \A j \in 1..Len(ready'[t]) :
                    StepOf(wfid[t], ready'[t][j]).status = PENDING
      ]_vars

\* C7 witness: a second run of a workflow computes a frontier while the
\* workflow has a COMPLETED and a FAILED step from the first run
C7_Witness ==
    \E t \in Tasks :
        /\ pc[t] = "for"
        /\ ~fresh[t]
        /\ \E i, j \in 1..Len(Wf(t).steps) :
              /\ Wf(t).steps[i].status = COMPLETED
              /\ Wf(t).steps[j].status = FAILED

\* ------------------------------------------------------------------- C8
\* C8: when run returns for an existing workflow, the workflow's status is
\* COMPLETED or FAILED, the summary's status equals it, and every step, in
\* the workflow and in the summary, is PENDING, COMPLETED or FAILED.
C8_ReturnsTerminal ==
    \A t \in Tasks : Returned(t) =>
        /\ Wf(t).status \in {COMPLETED, FAILED}
        /\ returned[t].status = Wf(t).status
        /\ returned[t].workflow_id = wfid[t]
        /\ DOMAIN returned[t].steps = Keys(Wf(t).steps)
        /\ \A s \in Keys(Wf(t).steps) :
              /\ StepOf(wfid[t], s).status \in {PENDING, COMPLETED, FAILED}
              /\ returned[t].steps[s] = StepOf(wfid[t], s).status

\* C8 witness: a run has returned with one step of each of the three statuses
C8_Witness ==
    \E t \in Tasks :
        /\ Returned(t)
        /\ \A st \in {PENDING, COMPLETED, FAILED} :
              \E s \in Keys(Wf(t).steps) : returned[t].steps[s] = st

\* ------------------------------------------------------------------- C9
\* C9: after an executor signalled failure for a step, the run goes on to
\* its normal return: the step is FAILED with the error description recorded
\* and its result unset, the run's failed flag is set, the step's executor
\* was invoked once in the run, and the run returns the summary with the
\* workflow and the summary FAILED and the step FAILED in it.
C9_FailureRecorded ==
    \A t \in Tasks : raised[t] # None =>
        /\ pc[t] \in {"while", "finish", "done"}
        /\ StepOf(wfid[t], raised[t]).status = FAILED
        /\ StepOf(wfid[t], raised[t]).error = ErrorText
        /\ StepOf(wfid[t], raised[t]).result = None
        /\ failed[t]
        /\ Cardinality({i \in 1..Len(invoked[t]) :
                           invoked[t][i].step_id = raised[t]}) = 1
        /\ pc[t] = "done" =>
              /\ Wf(t).status = FAILED
              /\ returned[t].workflow_id = wfid[t]
              /\ returned[t].status = FAILED
              /\ returned[t].steps[raised[t]] = FAILED

\* C9 witness: a run has returned after the executor of its second step
\* raised
C9_Witness ==
    \E t \in Tasks :
        /\ raised[t] # None
        /\ pc[t] = "done"
        /\ Len(invoked[t]) = 2

\* ------------------------------------------------------------------ C10
\* C10: add_step with a step_id the workflow already has raises
\* DuplicateStep and leaves the workflow table as it is; add_step with a new
\* step_id appends the step, PENDING, with no result and no error.
C10_AddStep ==
    [][ \A w \in DOMAIN workflows, s \in StepIds, a \in Actions, d \in DepLists :
          add_step(w, s, a, d) =>
              IF s \in Keys(workflows[w].steps)
              THEN /\ workflows' = workflows
                   /\ ret' = <<"add_step", [exception |-> "DuplicateStep"]>>
              ELSE /\ workflows'[w].steps =
                         Append(workflows[w].steps,
                                [step_id |-> s, action |-> a, dependencies |-> d,
                                 status |-> PENDING, result |-> None,
                                 error |-> None])
                   /\ ret' = <<"add_step", [step_id |-> s]>>
      ]_vars

\* ------------------------------------------------------------------ C11
\* C11: run, get_status and add_step called with a workflow id that is not
\* in the workflow table report not-found (run returns its error value,
\* get_status returns None, add_step raises ValueError) and change nothing:
\* the workflow table with every workflow's status and steps and the
\* executor registry stay as they are, no run is started and no executor is
\* invoked.
C11_UnknownWorkflow ==
    [][ \A w \in WfIds \ DOMAIN workflows :
          /\ (\E s \in StepIds, a \in Actions, d \in DepLists : add_step(w, s, a, d))
                => /\ ret' = <<"add_step", [exception |-> "ValueError"]>>
                   /\ UNCHANGED <<workflows, executors, invoked, pc, wfid>>
          /\ get_status(w)
                => /\ ret' = <<"get_status", [none |-> TRUE]>>
                   /\ UNCHANGED <<workflows, executors, invoked, pc, wfid>>
          /\ (\E t \in Tasks : RunNotFound(t, w))
                => /\ \E t \in Tasks :
                        /\ returned'[t] = [error |-> "Workflow not found"]
                        /\ pc'[t] = "done"
                   /\ UNCHANGED <<workflows, executors, invoked, wfid>>
      ]_vars

\* C11 witness: run has returned its error value for an unknown id while the
\* engine holds a workflow with steps, one of them COMPLETED, and a
\* registered executor
C11_Witness ==
    \E t \in Tasks :
        /\ pc[t] = "done"
        /\ wfid[t] = None
        /\ returned[t] = [error |-> "Workflow not found"]
        /\ \E w \in DOMAIN workflows :
              /\ Len(workflows[w].steps) >= 2
              /\ \E i \in 1..Len(workflows[w].steps) :
                    workflows[w].steps[i].status = COMPLETED
        /\ \E a \in Actions : executors[a] # None

\* ------------------------------------------------------------------ C12
\* the ids the run of task t has placed in `ready` so far
FrontierIds(t) ==
    UNION {{frontiers[t][i][j] : j \in 1..Len(frontiers[t][i])} :
               i \in 1..Len(frontiers[t])}

\* the ids of the steps whose executor the run of task t has called
InvokedIds(t) == {invoked[t][i].step_id : i \in 1..Len(invoked[t])}

\* `ready` of task t was computed by the round the run is in and none of it
\* is dispatched yet, or the round found nothing ready and flagged deadlock
RoundJustComputed(t) ==
    \/ pc[t] = "for" /\ idx[t] = 1
    \/ pc[t] = "finish" /\ failed[t] /\ raised[t] = None

\* C12: a step a run found ready and took through the for loop without
\* calling an executor (none was registered for its action) is COMPLETED, its
\* result is empty and its id is in the run's completed set; and it does not
\* block its dependents: whenever a round has computed `ready`, every PENDING
\* step whose dependencies are all steps this run took to COMPLETED, with or
\* without an executor, is in `ready`.
C12_NoExecutorCompletes ==
    \A t \in Tasks : InRun(t) =>
        /\ \A s \in FrontierIds(t) \ InvokedIds(t) :
              StepOf(wfid[t], s).status \notin {PENDING, RUNNING} =>
                  /\ StepOf(wfid[t], s).status = COMPLETED
                  /\ StepOf(wfid[t], s).result = None
                  /\ s \in completed[t]
        /\ RoundJustComputed(t) =>
              \A s \in Keys(Wf(t).steps) :
                  (/\ StepOf(wfid[t], s).status = PENDING
                   /\ \A dep \in StepOf(wfid[t], s).dependencies :
                         /\ dep \in FrontierIds(t)
                         /\ StepOf(wfid[t], dep).status = COMPLETED)
                      => ReadyPos(t, s) > 0

\* C12 witness: a second round has put a step in `ready` whose dependency
\* was completed in the first round without any executor being called
C12_Witness ==
    \E t \in Tasks :
        /\ pc[t] = "for" /\ idx[t] = 1
        /\ Len(frontiers[t]) = 2
        /\ invoked[t] = <<>>
        /\ \E s \in Keys(Wf(t).steps) :
              /\ ReadyPos(t, s) > 0
              /\ StepOf(wfid[t], s).dependencies # {}
              /\ \A dep \in StepOf(wfid[t], s).dependencies :
                    /\ dep \in completed[t]
                    /\ StepOf(wfid[t], dep).status = COMPLETED
                    /\ StepOf(wfid[t], dep).result = None

\* ------------------------------------------------------------------ C13
\* the status changes a workflow may make
WorkflowTransitions ==
    {<<PENDING, RUNNING>>, <<RUNNING, COMPLETED>>, <<RUNNING, FAILED>>}

\* C13: over every step of every engine operation a workflow keeps its status
\* or changes it along PENDING -> RUNNING -> COMPLETED or FAILED, and no
\* workflow and no step ever has the status CANCELLED.
C13_WorkflowStateMachine ==
    /\ [][ \A w \in DOMAIN workflows :
              \/ workflows'[w].status = workflows[w].status
              \/ <<workflows[w].status, workflows'[w].status>> \in WorkflowTransitions
         ]_vars
    /\ [](\A w \in DOMAIN workflows :
              /\ workflows[w].status # CANCELLED
              /\ \A i \in 1..Len(workflows[w].steps) :
                    workflows[w].steps[i].status # CANCELLED)

C15_ZeroSteps ==
    \A t \in Tasks : (InRun(t) /\ Len(Wf(t).steps) = 0) =>
        /\ pc[t] \in {"while", "finish", "done"}
        /\ frontiers[t] = <<>>
        /\ invoked[t] = <<>>
        /\ ~failed[t]
        /\ Returned(t) =>
              /\ Wf(t).status = COMPLETED
              /\ returned[t].workflow_id = wfid[t]
              /\ returned[t].status = COMPLETED
              /\ DOMAIN returned[t].steps = {}

\* C15 witness: a run of a workflow without steps has returned while an
\* executor is registered
C15_Witness ==
    \E t \in Tasks :
        /\ Returned(t)
        /\ Len(Wf(t).steps) = 0
        /\ returned[t].status = COMPLETED
        /\ \E a \in Actions : executors[a] # None

\* ------------------------------------------------------------------ C16
\* the reference least fixed point: start from S and add, until nothing more
\* can be added, every step all of whose dependency ids are in the set
RECURSIVE Closure(_, _)
Closure(steps, S) ==
    LET T == S \cup {s \in Keys(steps) : DepsOf(steps, s) \subseteq S}
    IN  IF T = S THEN S ELSE Closure(steps, T)

LeastFixedPoint(steps) == Closure(steps, {})

StepsWith(steps, status) ==
    {s \in Keys(steps) : steps[KeyIndex(steps, s)].status = status}

\* C16: when a run returns that started with every step PENDING and in which
\* no executor raised, the COMPLETED steps are exactly the least fixed point
\* of 'a step is in S when all its dependency ids are in S', every other
\* step is PENDING, and the returned status is completed exactly when the
\* least fixed point contains every step.
C16_LeastFixedPoint ==
    \A t \in Tasks : (Returned(t) /\ fresh[t] /\ raised[t] = None) =>
        /\ StepsWith(Wf(t).steps, COMPLETED) = LeastFixedPoint(Wf(t).steps)
        /\ StepsWith(Wf(t).steps, PENDING) =
               Keys(Wf(t).steps) \ LeastFixedPoint(Wf(t).steps)
        /\ returned[t].status = COMPLETED
               <=> LeastFixedPoint(Wf(t).steps) = Keys(Wf(t).steps)
        /\ returned[t].status \in {COMPLETED, FAILED}

\* C16 witness: such a run has returned, executors were called, and the
\* least fixed point holds some steps but not all
C16_Witness ==
    \E t \in Tasks :
        /\ Returned(t) /\ fresh[t] /\ raised[t] = None
        /\ invoked[t] # <<>>
        /\ Cardinality(LeastFixedPoint(Wf(t).steps)) = 2
        /\ Len(Wf(t).steps) = 3
        /\ returned[t].status = FAILED

\* ------------------------------------------------------------------ C17
\* s has a dependency that names a FAILED step
DependsOnFailed(steps, s) ==
    \E dep \in DepsOf(steps, s) :
        dep \in Keys(steps) /\ steps[KeyIndex(steps, dep)].status = FAILED

\* C17: at every point of a run, first or later, every id in the run's
\* completed set names a step whose status is COMPLETED, so no FAILED step's
\* id is in it; and no step the run has still to dispatch from its frontier
\* and no step it has dispatched and not finished depends on a step that is
\* FAILED.
C17_CompletedHoldsOnlyCompleted ==
    \A t \in Tasks : InRun(t) =>
        /\ \A s \in completed[t] :
              /\ s \in Keys(Wf(t).steps)
              /\ StepOf(wfid[t], s).status = COMPLETED
        /\ \A s \in StepsWith(Wf(t).steps, FAILED) : s \notin completed[t]
        /\ pc[t] \in {"for", "dispatched", "await"} =>
              \A j \in 1..Len(ready[t]) :
                  j >= idx[t] => ~DependsOnFailed(Wf(t).steps, ready[t][j])
        /\ \A s \in FrontierIds(t) :
              StepOf(wfid[t], s).status = RUNNING
                  => ~DependsOnFailed(Wf(t).steps, s)

\* C17 witness: a later run of a workflow has dispatched a step and awaits
\* its executor while an earlier run's FAILED step has a dependent, which is
\* PENDING and not in the frontier
C17_Witness ==
    \E t \in Tasks :
        /\ pc[t] = "await"
        /\ ~fresh[t]
        /\ \E s \in Keys(Wf(t).steps) :
              /\ DependsOnFailed(Wf(t).steps, s)
              /\ StepOf(wfid[t], s).status = PENDING
              /\ s \notin FrontierIds(t)

\* ------------------------------------------------------------------ C18
\* C18: provided every awaited executor returns or raises, every run returns,
\* whatever the dependency graph and whichever executors raise; each round
\* after which the loop goes on has added at least one id to `completed`, so
\* a run that is back at the loop condition without a failure has completed
\* at least as many steps as it has done rounds, and a run never does more
\* rounds than the workflow has steps plus one.
C18_Terminates ==
    /\ [](\A t \in Tasks : InRun(t) =>
              /\ Cardinality(completed[t]) <= Len(Wf(t).steps)
              /\ Len(frontiers[t]) <= Cardinality(completed[t]) + 1
              /\ Len(frontiers[t]) <= Len(Wf(t).steps) + 1
              /\ (pc[t] = "while" /\ ~failed[t])
                     => Len(frontiers[t]) <= Cardinality(completed[t]))
    /\ \A t \in Tasks : InRun(t) ~> pc[t] = "done"

\* C18 witness: a run over a graph with a cycle or a dangling id, in which an
\* executor was called, has returned failed after as many rounds as the
\* workflow has steps
C18_Witness ==
    \E t \in Tasks :
        /\ Returned(t)
        /\ ~ValidDag(Wf(t).steps)
        /\ invoked[t] # <<>>
        /\ Len(Wf(t).steps) = MaxStepIds
        /\ Len(frontiers[t]) = Len(Wf(t).steps)
        /\ returned[t].status = FAILED

\* ------------------------------------------------------------------ C19
\* C19: when a run returns that started with every step PENDING, at most one
\* step is FAILED; if it returns failed while no step is FAILED, at least
\* one step is PENDING; and the returned status map shows each step's status.
C19_DeadlockTellsFromFailure ==
    \A t \in Tasks : (Returned(t) /\ fresh[t]) =>
        /\ Cardinality(StepsWith(Wf(t).steps, FAILED)) <= 1
        /\ (returned[t].status = FAILED /\ StepsWith(Wf(t).steps, FAILED) = {})
               => StepsWith(Wf(t).steps, PENDING) # {}
        /\ \A s \in Keys(Wf(t).steps) :
               returned[t].steps[s] = StepOf(wfid[t], s).status

\* C19 witness: such a run returned failed by deadlock after calling an
\* executor: no step is FAILED, one is COMPLETED and one is PENDING
C19_Witness ==
    \E t \in Tasks :
        /\ Returned(t) /\ fresh[t]
        /\ invoked[t] # <<>>
        /\ returned[t].status = FAILED
        /\ StepsWith(Wf(t).steps, FAILED) = {}
        /\ StepsWith(Wf(t).steps, COMPLETED) # {}
        /\ StepsWith(Wf(t).steps, PENDING) # {}

\* ------------------------------------------------------------------ C20
\* C20: when two runs of the same workflow interleave at the executor awaits,
\* no step's executor is called by both runs or twice by one, and no run
\* sets a step to RUNNING whose status is RUNNING, COMPLETED or FAILED.
C20_RedispatchGuard ==
    /\ [][ \A t \in Tasks :
              Dispatch(t) => CurStep(t).status = PENDING ]_vars
    /\ [](\A t \in Tasks : InRun(t) =>
              /\ NoRepeat(invoked[t])
              /\ \A u \in Tasks \ {t} :
                    (InRun(u) /\ wfid[u] = wfid[t])
                        => InvokedIds(t) \cap InvokedIds(u) = {})

\* C20 as the code keeps it: of two interleaved runs each calls a step's
\* executor at most once, so a step's executor is called at most once per
\* run, and every list `ready` a run computes holds only steps that are
\* PENDING at that moment and not in the run's completed set: a step that is
\* RUNNING, COMPLETED or FAILED never enters a frontier.  (A step that is in
\* a frontier computed earlier is dispatched from it whatever the other run
\* has made of it since.)
C20_GuardAtFrontier ==
    /\ [][ \A t \in Tasks :
              Round(t) =>
                  \A j \in 1..Len(ready'[t]) :
                      /\ StepOf(wfid[t], ready'[t][j]).status = PENDING
                      /\ ready'[t][j] \notin completed[t] ]_vars
    /\ [](\A t \in Tasks : InRun(t) =>
              /\ NoRepeat(invoked[t])
              /\ NoRepeat(Flatten(frontiers[t])))

\* C20 witness: two runs of one workflow are in flight, the second computed
\* its frontier while the first was suspended at an await, and both have
\* called the executor of the same step
C20_Witness ==
    \E t \in Tasks : \E u \in Tasks \ {t} :
        /\ InRun(t) /\ InRun(u) /\ wfid[t] = wfid[u]
        /\ InvokedIds(t) \cap InvokedIds(u) # {}
        /\ Len(frontiers[t]) >= 1 /\ Len(frontiers[u]) >= 1

====
